---- MODULE Spec2Model ----
(***************************************************************************)
(* Escrow ledger of the Macronata backend (src/macronata_backend/main.py): *)
(* the wallets, sessions and wallet_transactions tables and the HTTP       *)
(* handlers that move money between them.  One action per handler; a       *)
(* handler runs to completion (requests one at a time).                    *)
(***************************************************************************)
EXTENDS Integers, Naturals, Sequences, FiniteSets, TLC

VARIABLES
    wallets,              \* table wallets: user_id -> row (only existing rows)
    sessions,             \* table sessions: row id (1..Len) -> row
    wallet_transactions,  \* table wallet_transactions, in insertion order
    now,                  \* datetime.now(), in whole seconds
    response,             \* the last HTTP response: status code and returned amount
    requests,             \* the requests in flight: worker -> its position and locals
    arrival               \* the tables as they were when those requests arrived

vars == <<wallets, sessions, wallet_transactions, now, response, requests, arrival>>

----------------------------------------------------------------------------
(* Bounds of the model *)

MaxSessions == 1      \* rows of the sessions table
MaxLog == 5           \* rows of wallet_transactions: a deposit and two ends
MaxTicks == 2         \* steps of the clock
TickSeconds == 1800   \* seconds per step: sessions of 0, 30 and 60 minutes
MaxCents == 172       \* largest amount a wallet column holds, either sign

(* Inputs of the requests *)

UserIds == {"u1"}
TutorIds == {"u2"}
BusinessIds == {"b1"}
AllIds == UserIds \cup TutorIds \cup BusinessIds
\* the callers of GET /my_wallet whose wallet may be missing; for a caller with
\* a wallet the request only reads
WalletCallers == BusinessIds
BookAmounts == {115}
DepositAmounts == {115}
SessionIdInputs == 1 .. MaxSessions
Actions == {"start", "end"}

(* SQL NULL / Python None, for a numeric column and for an id column *)
NULL == -1
None == "None"

----------------------------------------------------------------------------
(* Pure helpers *)

Max(a, b) == IF a >= b THEN a ELSE b

\* The blanket "except Exception as e: raise HTTPException(500, str(e))" of the
\* handlers: an HTTPException raised inside the try block is an Exception too.
ExceptHandler(status_code) == 500

\* An HTTP response: the status code and the number in the body (balance,
\* new_balance, locked_funds, final_cost), 0 when the body has none.
Response(status_code, result) == [status_code |-> status_code, result |-> result]

\* .single().execute() gives the one row of the query or raises APIError when
\* no row matches (maybe_single() is the variant that gives None), so a handler
\* that reads a missing wallet with .single() ends in its except clause.
HasWallet(w, user_id) == user_id \in DOMAIN w

NewWallet == [balance_cents |-> 0, locked_balance_cents |-> 0]

\* The model follows the wallets while every amount stays within MaxCents.
WithinBounds(w) ==
    \A u \in DOMAIN w :
        /\ w[u].balance_cents \in -MaxCents .. MaxCents
        /\ w[u].locked_balance_cents \in -MaxCents .. MaxCents

----------------------------------------------------------------------------
(* Python floats are IEEE-754 doubles: a 53-bit significand, every operation *)
(* rounded to nearest, ties to even.  A positive double is modelled as      *)
(* [sig |-> its significand in limbs of LimbBits bits, least significant    *)
(*  limb first (4 full limbs and a top limb 1), exp |-> the power of two    *)
(*  that weighs the lowest bit].  The operators cover hourly rates below    *)
(* 2^18 cents and durations below 2^17 seconds.                             *)

SignificandBits == 53
LimbBits == 13

RECURSIVE Pow2(_)
Pow2(n) == IF n = 0 THEN 1 ELSE 2 * Pow2(n - 1)

Base == Pow2(LimbBits)

\* the number of binary digits of a natural number
RECURSIVE BitLength(_)
BitLength(n) == IF n = 0 THEN 0 ELSE 1 + BitLength(n \div 2)

\* the limbs of a natural number, least significant first
RECURSIVE NatLimbs(_)
NatLimbs(n) == IF n = 0 THEN <<>> ELSE <<n % Base>> \o NatLimbs(n \div Base)

\* the natural number of a limb sequence, least significant first
RECURSIVE LimbsNat(_)
LimbsNat(l) == IF l = <<>> THEN 0 ELSE Head(l) + Base * LimbsNat(Tail(l))

LimbAt(l, i) == IF i \in 1 .. Len(l) THEN l[i] ELSE 0

\* floor(l / 2^s) on limbs
ShiftRight(l, s) ==
    LET ls == s \div LimbBits
        bs == s % LimbBits
    IN  [i \in 1 .. Max(Len(l) - ls, 0) |->
            (LimbAt(l, i + ls) \div Pow2(bs))
            + (LimbAt(l, i + ls + 1) % Pow2(bs)) * Pow2(LimbBits - bs)]

\* binary digit j (from 0) of l
BitAt(l, j) == (LimbAt(l, j \div LimbBits + 1) \div Pow2(j % LimbBits)) % 2

\* some binary digit of l below digit j is 1
AnyBitBelow(l, j) ==
    \/ \E i \in 1 .. j \div LimbBits : LimbAt(l, i) # 0
    \/ LimbAt(l, j \div LimbBits + 1) % Pow2(j % LimbBits) # 0

\* a significand (top limb 1) plus one unit in the last place
RoundUp(sig, exp) ==
    LET full == {i \in 1 .. Len(sig) - 1 : \A j \in 1 .. i : sig[j] = Base - 1}
    IN  IF Cardinality(full) = Len(sig) - 1
        THEN \* 2^53 - 1 + 1 = 2^52 * 2
             [sig |-> [i \in 1 .. Len(sig) |-> IF i = Len(sig) THEN 1 ELSE 0],
              exp |-> exp + 1]
        ELSE [sig |-> [i \in 1 .. Len(sig) |->
                         IF i \in full THEN 0
                         ELSE IF i = Cardinality(full) + 1 THEN sig[i] + 1
                         ELSE sig[i]],
              exp |-> exp]

\* The double nearest to the exact value l * 2^exp (l without leading zero
\* limbs, at least SignificandBits digits long), ties to even.
RoundNearestEven(l, exp) ==
    LET length == LimbBits * (Len(l) - 1) + BitLength(l[Len(l)])
        s == length - SignificandBits
        kept == SubSeq(ShiftRight(l, s), 1, 5)
        guard == IF s >= 1 THEN BitAt(l, s - 1) ELSE 0
        sticky == s >= 2 /\ AnyBitBelow(l, s - 1)
        up == guard = 1 /\ (sticky \/ kept[1] % 2 = 1)
    IN  IF up THEN RoundUp(kept, exp + s) ELSE [sig |-> kept, exp |-> exp + s]

\* Long division, LimbBits digits at a time: the next count limbs of rem / d,
\* most significant first, for rem < d < 2^18.
RECURSIVE QuotientLimbs(_, _, _)
QuotientLimbs(rem, d, count) ==
    IF count = 0 THEN <<>>
    ELSE <<(rem * Base) \div d>> \o QuotientLimbs((rem * Base) % d, d, count - 1)

RECURSIVE QuotientRem(_, _, _)
QuotientRem(rem, d, count) ==
    IF count = 0 THEN rem ELSE QuotientRem((rem * Base) % d, d, count - 1)

\* the e with 2^e <= n / d < 2^(e+1), n > 0
RECURSIVE Log2Floor(_, _)
Log2Floor(n, d) ==
    IF n < d THEN Log2Floor(2 * n, d) - 1
    ELSE IF n >= 2 * d THEN Log2Floor(n, 2 * d) + 1
    ELSE 0

\* float(n) / float(d) for naturals n > 0, d > 0
FloatDiv(n, d) ==
    LET e == Log2Floor(n, d)
        nn == IF e < 0 THEN n * Pow2(-e) ELSE n
        dd == IF e > 0 THEN d * Pow2(e) ELSE d
        msf == QuotientLimbs(nn - dd, dd, 4)
        rem == QuotientRem(nn - dd, dd, 4)
        sig == <<msf[4], msf[3], msf[2], msf[1], 1>>
        exp == e - (SignificandBits - 1)
        up == 2 * rem > dd \/ (2 * rem = dd /\ sig[1] % 2 = 1)
    IN  IF up THEN RoundUp(sig, exp) ELSE [sig |-> sig, exp |-> exp]

\* l * k on limbs, k a natural number below 2^17
RECURSIVE MulLimbs(_, _, _)
MulLimbs(l, k, carry) ==
    IF l = <<>> THEN NatLimbs(carry)
    ELSE LET t == Head(l) * k + carry
         IN  <<t % Base>> \o MulLimbs(Tail(l), k, t \div Base)

\* float(k) * x for a natural number k > 0 and a double x
FloatMulNat(k, x) == RoundNearestEven(MulLimbs(x.sig, k, 0), x.exp)

\* int(x) for a positive double x below 2^31: the digits of weight >= 1
FloatToInt(x) ==
    IF x.exp >= 0 THEN LimbsNat(x.sig) * Pow2(x.exp)
    ELSE LimbsNat(ShiftRight(x.sig, -x.exp))

\* int(k * (n / d)) in doubles, for naturals k, n and d > 0
IntOfProduct(k, n, d) ==
    IF k = 0 \/ n = 0 THEN 0 ELSE FloatToInt(FloatMulNat(k, FloatDiv(n, d)))

\* The products the requests of the model can ask for, computed once:
\* <<k, n>> :> int(k * (n / d)).
RECURSIVE Tabulate(_, _)
Tabulate(pairs, d) ==
    IF pairs = {} THEN <<>>
    ELSE LET p == CHOOSE x \in pairs : TRUE
         IN  (p :> IntOfProduct(p[1], p[2], d)) @@ Tabulate(pairs \ {p}, d)

Durations == {k * TickSeconds : k \in 0 .. MaxTicks}
BilledCentsTable == Tabulate(Durations \X BookAmounts, 3600)

\* lines 372-373: rate_per_sec = hourly_rate_cents / 3600.0
\*                final_cost = int(duration_seconds * rate_per_sec)
BilledCents(duration_seconds, hourly_rate_cents) ==
    IF <<duration_seconds, hourly_rate_cents>> \in DOMAIN BilledCentsTable
    THEN BilledCentsTable[<<duration_seconds, hourly_rate_cents>>]
    ELSE IntOfProduct(duration_seconds, hourly_rate_cents, 3600)

\* lines 376-378: the safety cap, then the floor at zero
SafetyCap(final_cost, locked_amt) ==
    LET capped == IF final_cost > locked_amt THEN locked_amt ELSE final_cost
    IN  IF capped < 0 THEN 0 ELSE capped

FinalCost(session, end_time) ==
    SafetyCap(BilledCents(end_time - session.start_time, session.hourly_rate_cents),
              session.max_cost_cap_cents)

\* RefundAmt with the bug "refund the whole cap"
RefundAmt_WholeCap(locked_amt, final_cost) == locked_amt

\* line 380
RefundAmt(locked_amt, final_cost) == locked_amt - final_cost

\* CommissionPercent with the bug "no business exemption"
CommissionPercent_NoExemption(session) == 15

\* lines 393-397: commission_rate, in percent (0.15 or 0.0)
CommissionPercent(session) == IF session.business_id # None THEN 0 ELSE 15

\* line 399: int(final_cost * commission_rate); the literal 0.15 is the double
\* nearest to 15 / 100
PlatformFeeTable ==
    Tabulate({SafetyCap(BilledCentsTable[p], p[2]) : p \in DOMAIN BilledCentsTable}
                \X {15}, 100)

PlatformFee(session, final_cost) ==
    IF <<final_cost, CommissionPercent(session)>> \in DOMAIN PlatformFeeTable
    THEN PlatformFeeTable[<<final_cost, CommissionPercent(session)>>]
    ELSE IntOfProduct(final_cost, CommissionPercent(session), 100)

\* line 400
TutorPay(final_cost, platform_fee) == final_cost - platform_fee

\* LockFunds with the bug "debit without holding in escrow"
LockFunds_NoEscrow(learner_wallet, cost_cap) ==
    [learner_wallet EXCEPT !.balance_cents = @ - cost_cap]

\* lines 346-347: Balance -> Locked
LockFunds(learner_wallet, cost_cap) ==
    [learner_wallet EXCEPT !.balance_cents = @ - cost_cap,
                           !.locked_balance_cents = @ + cost_cap]

\* lines 387-390: Locked -> Balance, less the final cost
RefundLearner(l_wallet, locked_amt, refund_amt) ==
    [l_wallet EXCEPT !.locked_balance_cents = @ - locked_amt,
                     !.balance_cents = @ + refund_amt]

\* session.get('business_id') or session['tutor_id']
PayRecipient(session) ==
    IF session.business_id # None THEN session.business_id ELSE session.tutor_id

\* DepositRow with the bug "the row is logged as a payment"
DepositRow_AsPayment(user, amount_in_cents) ==
    [wallet_id |-> user, amount_cents |-> -amount_in_cents,
     transaction_type |-> "payment"]

\* lines 287-289: the row of a deposit
DepositRow(user, amount_in_cents) ==
    [wallet_id |-> user, amount_cents |-> amount_in_cents,
     transaction_type |-> "deposit"]

\* SessionRows with the bug "the commission is logged as a third row"
SessionRows_WithCommission(learner_id, pay_recipient_id, final_cost, tutor_pay) ==
    << [wallet_id |-> learner_id, amount_cents |-> -final_cost,
        transaction_type |-> "payment"],
       [wallet_id |-> pay_recipient_id, amount_cents |-> tutor_pay,
        transaction_type |-> "earning"],
       [wallet_id |-> pay_recipient_id, amount_cents |-> final_cost - tutor_pay,
        transaction_type |-> "commission"] >>

\* lines 424-427: the two rows of a session end
SessionRows(learner_id, pay_recipient_id, final_cost, tutor_pay) ==
    << [wallet_id |-> learner_id, amount_cents |-> -final_cost,
        transaction_type |-> "payment"],
       [wallet_id |-> pay_recipient_id, amount_cents |-> tutor_pay,
        transaction_type |-> "earning"] >>

----------------------------------------------------------------------------
\* register_user (line 180) has created a wallet for every registered user; a
\* business_id of a booking need not be one.
Init ==
    /\ wallets = [user_id \in UserIds \cup TutorIds |-> NewWallet]
    /\ sessions = <<>>
    /\ wallet_transactions = <<>>
    /\ now = 0
    /\ response = Response(0, 0)
    /\ requests = <<>>
    /\ arrival = <<>>

\* GET /my_wallet: creates the caller's wallet when it is missing.
get_my_wallet(user) ==
    /\ IF ~HasWallet(wallets, user)
       THEN wallets' = wallets @@ (user :> NewWallet)
       ELSE UNCHANGED wallets
    /\ response' = Response(200, IF HasWallet(wallets, user) THEN wallets[user].balance_cents ELSE 0)
    /\ UNCHANGED <<sessions, wallet_transactions, now, requests, arrival>>

\* POST /confirm_deposit_simulated
confirm_deposit_sim(user, amount_in_cents) ==
    IF ~HasWallet(wallets, user)
    THEN /\ response' = Response(ExceptHandler(406), 0)
         /\ UNCHANGED <<wallets, sessions, wallet_transactions, now, requests, arrival>>
    ELSE LET new_bal == wallets[user].balance_cents + amount_in_cents IN
         /\ Len(wallet_transactions) < MaxLog
         /\ wallets' = [wallets EXCEPT ![user].balance_cents = new_bal]
         /\ WithinBounds(wallets')
         /\ wallet_transactions' = Append(wallet_transactions,
                                          DepositRow(user, amount_in_cents))
         /\ response' = Response(200, new_bal)
         /\ UNCHANGED <<sessions, now, requests, arrival>>

\* book_with_wallet with the bug "the amount is deducted at booking"
book_with_wallet_Prepaid(user, tutor_id, business_id, amount_in_cents) ==
    /\ Len(sessions) < MaxSessions
    /\ HasWallet(wallets, user)
    /\ sessions' = Append(sessions,
            [tutor_id |-> tutor_id, learner_id |-> user,
             business_id |-> business_id, status |-> "scheduled",
             hourly_rate_cents |-> amount_in_cents,
             max_cost_cap_cents |-> amount_in_cents,
             start_time |-> NULL, end_time |-> NULL,
             final_cost_cents |-> NULL])
    /\ wallets' = [wallets EXCEPT ![user].balance_cents = @ - amount_in_cents]
    /\ WithinBounds(wallets')
    /\ response' = Response(200, 0)
    /\ UNCHANGED <<wallet_transactions, now, requests, arrival>>

\* POST /book_with_wallet
book_with_wallet(user, tutor_id, business_id, amount_in_cents) ==
    /\ Len(sessions) < MaxSessions
    /\ sessions' = Append(sessions,
            [tutor_id |-> tutor_id, learner_id |-> user,
             business_id |-> business_id, status |-> "scheduled",
             hourly_rate_cents |-> amount_in_cents,
             max_cost_cap_cents |-> amount_in_cents,
             start_time |-> NULL, end_time |-> NULL,
             final_cost_cents |-> NULL])
    /\ response' = Response(200, 0)
    /\ UNCHANGED <<wallets, wallet_transactions, now, requests, arrival>>

\* POST /session_control, action "start" on an existing session row
control_session_start(session_id) ==
    LET session == sessions[session_id]
        learner_id == session.learner_id
        cost_cap == session.max_cost_cap_cents
        Fail(code) ==
            /\ response' = Response(ExceptHandler(code), 0)
            /\ UNCHANGED <<wallets, sessions, wallet_transactions, now, requests, arrival>>
    IN  IF ~HasWallet(wallets, learner_id) THEN Fail(406)
        ELSE IF wallets[learner_id].balance_cents < cost_cap THEN Fail(402)
        ELSE /\ wallets' = [wallets EXCEPT
                    ![learner_id] = LockFunds(@, cost_cap)]
             /\ WithinBounds(wallets')
             /\ sessions' = [sessions EXCEPT
                    ![session_id].status = "live",
                    ![session_id].start_time = now]
             /\ response' = Response(200, cost_cap)
             /\ UNCHANGED <<wallet_transactions, now, requests, arrival>>

\* POST /session_control, action "end" on an existing session row
control_session_end(session_id) ==
    LET session == sessions[session_id]
        Fail(code) ==
            response' = Response(ExceptHandler(code), 0)
        end_time == now
        final_cost == FinalCost(session, end_time)
        locked_amt == session.max_cost_cap_cents
        refund_amt == RefundAmt(locked_amt, final_cost)
        learner_id == session.learner_id
        platform_fee == PlatformFee(session, final_cost)
        tutor_pay == TutorPay(final_cost, platform_fee)
        pay_recipient_id == PayRecipient(session)
        \* A. the learner's row after the refund
        refunded == [wallets EXCEPT
            ![learner_id] = RefundLearner(@, locked_amt, refund_amt)]
    IN  IF session.start_time = NULL
        THEN /\ Fail(400)
             /\ UNCHANGED <<wallets, sessions, wallet_transactions, now, requests, arrival>>
        ELSE IF ~HasWallet(wallets, learner_id)
        THEN /\ Fail(406)
             /\ UNCHANGED <<wallets, sessions, wallet_transactions, now, requests, arrival>>
        ELSE IF ~HasWallet(refunded, pay_recipient_id)
        THEN \* .single() on the payee's missing row raises after step A
             /\ wallets' = refunded
             /\ WithinBounds(wallets')
             /\ Fail(406)
             /\ UNCHANGED <<sessions, wallet_transactions, now, requests, arrival>>
        ELSE /\ Len(wallet_transactions) + 2 <= MaxLog
             /\ wallets' = [refunded EXCEPT
                    ![pay_recipient_id].balance_cents = @ + tutor_pay]
             /\ WithinBounds(wallets')
             /\ sessions' = [sessions EXCEPT
                    ![session_id].status = "completed",
                    ![session_id].end_time = end_time,
                    ![session_id].final_cost_cents = final_cost]
             /\ wallet_transactions' = wallet_transactions \o
                    SessionRows(learner_id, pay_recipient_id, final_cost, tutor_pay)
             /\ response' = Response(200, final_cost)
             /\ UNCHANGED <<now, requests, arrival>>

\* POST /session_control
control_session(session_id, action) ==
    IF session_id \notin DOMAIN sessions
    THEN /\ response' = Response(ExceptHandler(404), 0)
         /\ UNCHANGED <<wallets, sessions, wallet_transactions, now, requests, arrival>>
    ELSE IF action = "start" THEN control_session_start(session_id)
    ELSE control_session_end(session_id)

\* Time passes between requests.  The handlers read the clock only as the
\* difference to a start_time (line 369), so the clock of the model stands at 0
\* until a session has been started.
Tick ==
    /\ \E sid \in DOMAIN sessions : sessions[sid].start_time # NULL
    /\ now < MaxTicks * TickSeconds
    /\ now' = now + TickSeconds
    /\ UNCHANGED <<wallets, sessions, wallet_transactions, response, requests, arrival>>

Next ==
    \/ \E user \in WalletCallers : get_my_wallet(user)
    \/ \E user \in UserIds, amount \in DepositAmounts :
            confirm_deposit_sim(user, amount)
    \/ \E user \in UserIds, tutor_id \in TutorIds,
          business_id \in BusinessIds \cup {None}, amount \in BookAmounts :
            book_with_wallet(user, tutor_id, business_id, amount)
    \/ \E session_id \in SessionIdInputs, action \in Actions :
            control_session(session_id, action)
    \/ Tick

Spec == Init /\ [][Next]_vars

TypeOK ==
    /\ DOMAIN wallets \subseteq AllIds
    /\ Len(sessions) <= MaxSessions
    /\ Len(wallet_transactions) <= MaxLog
    /\ now \in 0 .. MaxTicks * TickSeconds

----------------------------------------------------------------------------
(* Two requests served at once.  uvicorn runs the "def" handlers in a        *)
(* thread pool, and every .execute() is one HTTP call to the database: the   *)
(* calls of two handlers interleave, each call on its own is atomic, and a  *)
(* handler keeps what it has read in local variables between its calls.      *)

Workers == {1, 2}
ArrivalSessions == 2      \* session rows present when the two requests arrive
ArrivalDeposits == 2      \* most deposits made before the two requests arrive

NoWallet == [balance_cents |-> 0, locked_balance_cents |-> 0]
NoSession ==
    [tutor_id |-> None, learner_id |-> None, business_id |-> None,
     status |-> "none", hourly_rate_cents |-> 0, max_cost_cap_cents |-> 0,
     start_time |-> NULL, end_time |-> NULL, final_cost_cents |-> NULL]

\* a request as it arrives: nothing read yet, no response yet
Arriving(op, user, session_id, amount_in_cents) ==
    [op |-> op, user |-> user, session_id |-> session_id,
     amount_in_cents |-> amount_in_cents, pc |-> "begin",
     wallet |-> NoWallet, session |-> NoSession, status_code |-> 0]

ArrivingRequests ==
    {Arriving("deposit", user, 0, amount) :
        user \in UserIds, amount \in DepositAmounts}
    \cup {Arriving(action, user, session_id, 0) :
        action \in Actions, user \in UserIds, session_id \in 1 .. ArrivalSessions}

\* The tables when the requests arrive: the learner has deposited, the
\* sessions are booked, and some of them have been started at time 0.
InitInterleaved ==
    /\ \E learner \in UserIds, tutor_id \in TutorIds, amount \in BookAmounts,
          deposits \in 1 .. ArrivalDeposits, live \in SUBSET (1 .. ArrivalSessions) :
          /\ Cardinality(live) <= deposits
          /\ wallets = (learner :> [balance_cents |->
                                        amount * (deposits - Cardinality(live)),
                                    locked_balance_cents |->
                                        amount * Cardinality(live)])
                       @@ [user_id \in UserIds \cup TutorIds |-> NewWallet]
          /\ sessions = [session_id \in 1 .. ArrivalSessions |->
                [tutor_id |-> tutor_id, learner_id |-> learner,
                 business_id |-> None,
                 status |-> IF session_id \in live THEN "live" ELSE "scheduled",
                 hourly_rate_cents |-> amount,
                 max_cost_cap_cents |-> amount,
                 start_time |-> IF session_id \in live THEN 0 ELSE NULL,
                 end_time |-> NULL,
                 final_cost_cents |-> NULL]]
          /\ wallet_transactions = [i \in 1 .. deposits |-> DepositRow(learner, amount)]
    /\ now = TickSeconds
    /\ response = Response(0, 0)
    /\ requests \in [Workers -> ArrivingRequests]
    /\ arrival = [wallets |-> wallets, sessions |-> sessions]

\* the worker moves on to its next database call
Goto(p, pc) == requests' = [requests EXCEPT ![p].pc = pc]

\* the worker answers
Return(p, status_code) ==
    requests' = [requests EXCEPT ![p].pc = "done", ![p].status_code = status_code]

\* line 284: current = select balance_cents ... single()
deposit_select(p) ==
    LET req == requests[p] IN
    /\ req.op = "deposit" /\ req.pc = "begin"
    /\ IF ~HasWallet(wallets, req.user)
       THEN Return(p, ExceptHandler(406))
       ELSE requests' = [requests EXCEPT ![p].pc = "update",
                                         ![p].wallet = wallets[req.user]]
    /\ UNCHANGED <<wallets, sessions, wallet_transactions, now, response, arrival>>

\* lines 285-286: new_bal from the row read before, then the update
deposit_update(p) ==
    LET req == requests[p]
        new_bal == req.wallet.balance_cents + req.amount_in_cents
    IN  /\ req.op = "deposit" /\ req.pc = "update"
        /\ wallets' = [wallets EXCEPT ![req.user].balance_cents = new_bal]
        /\ Goto(p, "insert")
        /\ UNCHANGED <<sessions, wallet_transactions, now, response, arrival>>

\* lines 287-290: the log row, then the answer
deposit_insert(p) ==
    LET req == requests[p] IN
    /\ req.op = "deposit" /\ req.pc = "insert"
    /\ wallet_transactions' = Append(wallet_transactions,
                                     DepositRow(req.user, req.amount_in_cents))
    /\ Return(p, 200)
    /\ UNCHANGED <<wallets, sessions, now, response, arrival>>

\* lines 329-331, and line 364 for an end: the session row is read once
session_select(p) ==
    LET req == requests[p] IN
    /\ req.op \in Actions /\ req.pc = "begin"
    /\ IF req.session_id \notin DOMAIN sessions
       THEN Return(p, ExceptHandler(404))
       ELSE IF req.op = "end" /\ sessions[req.session_id].start_time = NULL
       THEN Return(p, ExceptHandler(400))
       ELSE requests' = [requests EXCEPT ![p].pc = "wallet",
                                         ![p].session = sessions[req.session_id]]
    /\ UNCHANGED <<wallets, sessions, wallet_transactions, now, response, arrival>>

\* lines 339-343: the learner's row is read and checked
start_wallet(p) ==
    LET req == requests[p]
        learner_id == req.session.learner_id
        cost_cap == req.session.max_cost_cap_cents
    IN  /\ req.op = "start" /\ req.pc = "wallet"
        /\ IF ~HasWallet(wallets, learner_id)
           THEN Return(p, ExceptHandler(406))
           ELSE IF wallets[learner_id].balance_cents < cost_cap
           THEN Return(p, ExceptHandler(402))
           ELSE requests' = [requests EXCEPT ![p].pc = "lock",
                                             ![p].wallet = wallets[learner_id]]
        /\ UNCHANGED <<wallets, sessions, wallet_transactions, now, response, arrival>>

\* lines 346-352: both columns are written from the row read before
start_lock(p) ==
    LET req == requests[p]
        learner_id == req.session.learner_id
        cost_cap == req.session.max_cost_cap_cents
    IN  /\ req.op = "start" /\ req.pc = "lock"
        /\ wallets' = [wallets EXCEPT ![learner_id] = LockFunds(req.wallet, cost_cap)]
        /\ Goto(p, "timer")
        /\ UNCHANGED <<sessions, wallet_transactions, now, response, arrival>>

\* lines 355-360
start_timer(p) ==
    LET req == requests[p] IN
    /\ req.op = "start" /\ req.pc = "timer"
    /\ sessions' = [sessions EXCEPT ![req.session_id].status = "live",
                                    ![req.session_id].start_time = now]
    /\ Return(p, 200)
    /\ UNCHANGED <<wallets, wallet_transactions, now, response, arrival>>

\* line 385: l_wallet
end_wallet(p) ==
    LET req == requests[p]
        learner_id == req.session.learner_id
    IN  /\ req.op = "end" /\ req.pc = "wallet"
        /\ IF ~HasWallet(wallets, learner_id)
           THEN Return(p, ExceptHandler(406))
           ELSE requests' = [requests EXCEPT ![p].pc = "refund",
                                             ![p].wallet = wallets[learner_id]]
        /\ UNCHANGED <<wallets, sessions, wallet_transactions, now, response, arrival>>

\* lines 387-390: both columns are written from l_wallet
end_refund(p) ==
    LET req == requests[p]
        learner_id == req.session.learner_id
        locked_amt == req.session.max_cost_cap_cents
        final_cost == FinalCost(req.session, now)
        refund_amt == RefundAmt(locked_amt, final_cost)
    IN  /\ req.op = "end" /\ req.pc = "refund"
        /\ wallets' = [wallets EXCEPT
                ![learner_id] = RefundLearner(req.wallet, locked_amt, refund_amt)]
        /\ Goto(p, "payee")
        /\ UNCHANGED <<sessions, wallet_transactions, now, response, arrival>>

\* line 404: t_wallet
end_payee(p) ==
    LET req == requests[p]
        pay_recipient_id == PayRecipient(req.session)
    IN  /\ req.op = "end" /\ req.pc = "payee"
        /\ IF ~HasWallet(wallets, pay_recipient_id)
           THEN Return(p, ExceptHandler(406))
           ELSE requests' = [requests EXCEPT ![p].pc = "pay",
                                             ![p].wallet = wallets[pay_recipient_id]]
        /\ UNCHANGED <<wallets, sessions, wallet_transactions, now, response, arrival>>

\* lines 410-414: t_bal + tutor_pay
end_pay(p) ==
    LET req == requests[p]
        final_cost == FinalCost(req.session, now)
        tutor_pay == TutorPay(final_cost, PlatformFee(req.session, final_cost))
        pay_recipient_id == PayRecipient(req.session)
    IN  /\ req.op = "end" /\ req.pc = "pay"
        /\ wallets' = [wallets EXCEPT ![pay_recipient_id].balance_cents =
                            req.wallet.balance_cents + tutor_pay]
        /\ Goto(p, "close")
        /\ UNCHANGED <<sessions, wallet_transactions, now, response, arrival>>

\* lines 417-421
end_close(p) ==
    LET req == requests[p] IN
    /\ req.op = "end" /\ req.pc = "close"
    /\ sessions' = [sessions EXCEPT
            ![req.session_id].status = "completed",
            ![req.session_id].end_time = now,
            ![req.session_id].final_cost_cents = FinalCost(req.session, now)]
    /\ Goto(p, "log")
    /\ UNCHANGED <<wallets, wallet_transactions, now, response, arrival>>

\* lines 424-429
end_log(p) ==
    LET req == requests[p]
        final_cost == FinalCost(req.session, now)
        tutor_pay == TutorPay(final_cost, PlatformFee(req.session, final_cost))
    IN  /\ req.op = "end" /\ req.pc = "log"
        /\ wallet_transactions' = wallet_transactions \o
                SessionRows(req.session.learner_id, PayRecipient(req.session),
                            final_cost, tutor_pay)
        /\ Return(p, 200)
        /\ UNCHANGED <<wallets, sessions, now, response, arrival>>

NextInterleaved ==
    \E p \in Workers :
        \/ deposit_select(p)
        \/ deposit_update(p)
        \/ deposit_insert(p)
        \/ session_select(p)
        \/ start_wallet(p)
        \/ start_lock(p)
        \/ start_timer(p)
        \/ end_wallet(p)
        \/ end_refund(p)
        \/ end_payee(p)
        \/ end_pay(p)
        \/ end_close(p)
        \/ end_log(p)

SpecInterleaved == InitInterleaved /\ [][NextInterleaved]_vars

----------------------------------------------------------------------------
(* Reading a step: the step is the one a request makes, and the request     *)
(* succeeded when its response is 200.                                      *)

StartRequest(session_id) == control_session(session_id, "start")

EndRequest(session_id) == control_session(session_id, "end")

Succeeded == response'.status_code = 200

----------------------------------------------------------------------------
(* C1: in every reachable state every wallet has balance_cents >= 0 and    *)
(* locked_balance_cents >= 0.                                              *)
C1_NonNegativeWallets ==
    \A u \in DOMAIN wallets :
        wallets[u].balance_cents >= 0 /\ wallets[u].locked_balance_cents >= 0

(* C2: an end request on a session that is already completed fails and     *)
(* leaves every wallet, the session row and the transaction log unchanged.  *)
C2_SecondEndRejected ==
    [][\A sid \in DOMAIN sessions :
          (EndRequest(sid) /\ sessions[sid].status = "completed")
          => /\ ~Succeeded
             /\ UNCHANGED <<wallets, sessions, wallet_transactions>>]_vars

(* C3: a start request succeeds only on a scheduled session; a start on a   *)
(* session that is live or completed fails and locks no further funds.     *)
C3_StartOnlyWhenScheduled ==
    [][\A sid \in DOMAIN sessions :
          (StartRequest(sid) /\ sessions[sid].status # "scheduled")
          => /\ ~Succeeded
             /\ UNCHANGED <<wallets, sessions, wallet_transactions>>]_vars

----------------------------------------------------------------------------
(* Sums over the wallets table *)

RECURSIVE SumBalances(_, _)
SumBalances(w, ids) ==
    IF ids = {} THEN 0
    ELSE LET u == CHOOSE x \in ids : TRUE
         IN  w[u].balance_cents + SumBalances(w, ids \ {u})

RECURSIVE SumLocked(_, _)
SumLocked(w, ids) ==
    IF ids = {} THEN 0
    ELSE LET u == CHOOSE x \in ids : TRUE
         IN  w[u].locked_balance_cents + SumLocked(w, ids \ {u})

AllBalances(w) == SumBalances(w, DOMAIN w)
AllLocked(w) == SumLocked(w, DOMAIN w)

\* What a successful end step wrote: the last two log rows and the session row.
PaymentRow == wallet_transactions'[Len(wallet_transactions') - 1]
EarningRow == wallet_transactions'[Len(wallet_transactions')]
PayeeCredit == EarningRow.amount_cents
FinalCostWritten(sid) == sessions'[sid].final_cost_cents
\* the cents that left the wallets in the step
CommissionRetained(sid) == FinalCostWritten(sid) - PayeeCredit

(* C4: for every session that an end request completes, refund + final_cost *)
(* equals max_cost_cap_cents and final_cost equals the payee credit plus    *)
(* the cents that left the wallets (the retained commission): the cap       *)
(* leaves escrow, the refund and the credit reach balances, the learner's   *)
(* payment row is -final_cost.                                             *)
C4_Conservation ==
    [][\A sid \in DOMAIN sessions :
          (EndRequest(sid) /\ Succeeded)
          => LET cap == sessions[sid].max_cost_cap_cents
                 final_cost == FinalCostWritten(sid)
                 refund == AllBalances(wallets') - AllBalances(wallets) - PayeeCredit
                 left == (AllBalances(wallets) + AllLocked(wallets))
                         - (AllBalances(wallets') + AllLocked(wallets'))
             IN  /\ sessions'[sid].status = "completed"
                 /\ AllLocked(wallets') = AllLocked(wallets) - cap
                 /\ refund + final_cost = cap
                 /\ PaymentRow.amount_cents = -final_cost
                 /\ final_cost = PayeeCredit + left
                 /\ left >= 0 /\ PayeeCredit >= 0]_vars

\* an end completed a session part-way through the hour, with a commission
C4_Witness ==
    /\ response.status_code = 200
    /\ \E sid \in DOMAIN sessions :
        LET session == sessions[sid]
        IN /\ session.status = "completed"
           /\ response.result = session.final_cost_cents
           /\ session.final_cost_cents > 0
           /\ session.final_cost_cents < session.max_cost_cap_cents
           /\ session.business_id = None
           /\ session.learner_id # session.tutor_id
           /\ wallets[session.tutor_id].balance_cents > 0
           /\ wallets[session.tutor_id].balance_cents < session.final_cost_cents

Clamp(x, lo, hi) == IF x < lo THEN lo ELSE IF x > hi THEN hi ELSE x

(* C5: the final_cost_cents written by an end request is within             *)
(* 0 .. max_cost_cap_cents and equals floor(duration_seconds *              *)
(* hourly_rate_cents / 3600) clamped to that range.                         *)
C5_FinalCostIsClampedFloor ==
    [][\A sid \in DOMAIN sessions :
          (EndRequest(sid) /\ Succeeded)
          => LET duration_seconds == now - sessions[sid].start_time
                 cap == sessions[sid].max_cost_cap_cents
                 final_cost == FinalCostWritten(sid)
             IN  /\ 0 <= final_cost /\ final_cost <= cap
                 /\ final_cost =
                      Clamp((duration_seconds * sessions[sid].hourly_rate_cents)
                                \div 3600, 0, cap)]_vars

\* round(n / d) as Python rounds: to nearest, ties to even
RoundHalfEven(n, d) ==
    LET q == n \div d
        r == n % d
    IN  IF 2 * r > d \/ (2 * r = d /\ q % 2 = 1) THEN q + 1 ELSE q

(* C6 as claimed: the retained commission is 0 with a business_id and       *)
(* round(final_cost * 0.15) without one.                                    *)
C6_CommissionRounded ==
    [][\A sid \in DOMAIN sessions :
          (EndRequest(sid) /\ Succeeded)
          => CommissionRetained(sid) =
                IF sessions[sid].business_id # None THEN 0
                ELSE RoundHalfEven(FinalCostWritten(sid) * 15, 100)]_vars

(* C6 as amended: the retained commission is 0 with a business_id and       *)
(* final_cost * 0.15 truncated toward zero, floor(final_cost * 15 / 100),   *)
(* without one.                                                             *)
C6_CommissionTruncated ==
    [][\A sid \in DOMAIN sessions :
          (EndRequest(sid) /\ Succeeded)
          => CommissionRetained(sid) =
                IF sessions[sid].business_id # None THEN 0
                ELSE (FinalCostWritten(sid) * 15) \div 100]_vars

\* an end on a session without business_id whose commission has a fraction
\* of a half cent or more, so that rounding and truncation differ
C6_Witness ==
    /\ response.status_code = 200
    /\ \E sid \in DOMAIN sessions :
        LET session == sessions[sid]
        IN /\ session.status = "completed"
           /\ response.result = session.final_cost_cents
           /\ Len(wallet_transactions) >= 2
           /\ session.business_id = None
           /\ (session.final_cost_cents * 15) % 100 >= 50
           /\ wallet_transactions[Len(wallet_transactions)].amount_cents
                = session.final_cost_cents - (session.final_cost_cents * 15) \div 100

(* C7: a start request when the learner's balance_cents is below the cap    *)
(* is answered with HTTP 402 and changes no wallet, session or log row.     *)
C7_InsufficientFundsIs402 ==
    [][\A sid \in DOMAIN sessions :
          (/\ StartRequest(sid)
           /\ HasWallet(wallets, sessions[sid].learner_id)
           /\ wallets[sessions[sid].learner_id].balance_cents
                < sessions[sid].max_cost_cap_cents)
          => /\ response'.status_code = 402
             /\ UNCHANGED <<wallets, sessions, wallet_transactions>>]_vars

\* the caps of the live sessions of a learner, over the session rows 1 .. n
RECURSIVE LiveCaps(_, _)
LiveCaps(learner_id, n) ==
    IF n = 0 THEN 0
    ELSE LiveCaps(learner_id, n - 1)
         + (IF sessions[n].learner_id = learner_id /\ sessions[n].status = "live"
            THEN sessions[n].max_cost_cap_cents ELSE 0)

(* C8: in every reachable state each wallet's locked_balance_cents equals   *)
(* the sum of max_cost_cap_cents over that learner's live sessions.         *)
C8_LockedIsSumOfLiveCaps ==
    \A u \in DOMAIN wallets :
        wallets[u].locked_balance_cents = LiveCaps(u, Len(sessions))

(* C9: a session's status only moves scheduled -> live -> completed and     *)
(* start_time, once set, is never overwritten.                              *)
C9_ForwardOnly ==
    [][\A sid \in DOMAIN sessions :
          /\ sessions[sid].status = "live"
                => sessions'[sid].status \in {"live", "completed"}
          /\ sessions[sid].status = "completed"
                => sessions'[sid].status = "completed"
          /\ sessions[sid].start_time # NULL
                => sessions'[sid].start_time = sessions[sid].start_time]_vars

(* C10: a successful start on a scheduled session with cap c takes c from   *)
(* the learner's balance_cents, adds c to the learner's                     *)
(* locked_balance_cents, sets the session live with start_time set, and     *)
(* changes no other wallet, no other session and no log row.                *)
C10_StartEffect ==
    [][\A sid \in DOMAIN sessions :
          (StartRequest(sid) /\ Succeeded /\ sessions[sid].status = "scheduled")
          => LET learner_id == sessions[sid].learner_id
                 c == sessions[sid].max_cost_cap_cents
             IN  /\ wallets' = [wallets EXCEPT
                        ![learner_id].balance_cents = @ - c,
                        ![learner_id].locked_balance_cents = @ + c]
                 /\ sessions' = [sessions EXCEPT
                        ![sid].status = "live",
                        ![sid].start_time = now]
                 /\ wallet_transactions' = wallet_transactions
                 /\ response'.result = c]_vars

\* a first start has just locked the cap of a session
C10_Witness ==
    /\ response.status_code = 200
    /\ \E sid \in DOMAIN sessions :
        LET session == sessions[sid]
        IN /\ session.status = "live"
           /\ response.result = session.max_cost_cap_cents
           /\ session.start_time = now
           /\ session.max_cost_cap_cents > 0
           /\ wallets[session.learner_id].locked_balance_cents
                = session.max_cost_cap_cents
           /\ Len(wallet_transactions) = 1
           /\ wallets[session.learner_id].balance_cents
                = wallet_transactions[1].amount_cents - session.max_cost_cap_cents

----------------------------------------------------------------------------
(* C11: an end request on a live session with cap c and computed final     *)
(* cost f takes c from the learner's locked_balance_cents, adds c - f to    *)
(* the learner's balance_cents, credits the payee credit to the wallet of   *)
(* business_id when the session has one and of tutor_id otherwise, creating *)
(* that wallet with zero balance first when it is absent, and sets the      *)
(* session to completed with final_cost_cents = f.                          *)
C11_EndEffect ==
    [][\A sid \in DOMAIN sessions :
          (EndRequest(sid) /\ sessions[sid].status = "live")
          => LET session == sessions[sid]
                 c == session.max_cost_cap_cents
                 f == FinalCost(session, now)
                 learner_id == session.learner_id
                 payee_id == IF session.business_id # None
                             THEN session.business_id ELSE session.tutor_id
                 payee_credit == f - PlatformFee(session, f)
                 with_payee == IF HasWallet(wallets, payee_id) THEN wallets
                               ELSE wallets @@ (payee_id :> NewWallet)
                 settled == [with_payee EXCEPT
                                ![learner_id].locked_balance_cents = @ - c,
                                ![learner_id].balance_cents = @ + c - f]
             IN  /\ wallets' = [settled EXCEPT
                                    ![payee_id].balance_cents = @ + payee_credit]
                 /\ sessions'[sid].status = "completed"
                 /\ sessions'[sid].final_cost_cents = f]_vars

(* C12: an end request on a session that is scheduled, with start_time      *)
(* unset, fails with InvalidState (HTTP 400 or 409) and leaves every        *)
(* wallet, the session row and the transaction log unchanged.               *)
C12_EndBeforeStartIsInvalidState ==
    [][\A sid \in DOMAIN sessions :
          (/\ EndRequest(sid)
           /\ sessions[sid].status = "scheduled"
           /\ sessions[sid].start_time = NULL)
          => /\ response'.status_code \in {400, 409}
             /\ UNCHANGED <<wallets, sessions, wallet_transactions>>]_vars

----------------------------------------------------------------------------
\* The wallets after one request has been served alone, start to finish, on
\* the wallets w and the session rows s.
Served(w, s, req) ==
    IF req.op = "deposit"
    THEN IF HasWallet(w, req.user)
         THEN [w EXCEPT ![req.user].balance_cents = @ + req.amount_in_cents]
         ELSE w
    ELSE IF req.session_id \notin DOMAIN s THEN w
    ELSE LET session == s[req.session_id]
             learner_id == session.learner_id
             cap == session.max_cost_cap_cents
             final_cost == FinalCost(session, now)
             refunded == [w EXCEPT ![learner_id].locked_balance_cents = @ - cap,
                                   ![learner_id].balance_cents = @ + cap - final_cost]
             payee_id == PayRecipient(session)
         IN  IF ~HasWallet(w, learner_id) THEN w
             ELSE IF req.op = "start"
             THEN IF w[learner_id].balance_cents < cap THEN w
                  ELSE [w EXCEPT ![learner_id].balance_cents = @ - cap,
                                 ![learner_id].locked_balance_cents = @ + cap]
             ELSE IF session.start_time = NULL THEN w
             ELSE IF ~HasWallet(w, payee_id) THEN refunded
             ELSE [refunded EXCEPT ![payee_id].balance_cents =
                        @ + final_cost - PlatformFee(session, final_cost)]

\* the pairs of requests on one wallet that the property is about: two
\* deposits, a deposit with a start or an end, two starts of different
\* sessions of one learner
SameWalletPair(a, b) ==
    LET Learner(req) == IF req.op = "deposit" THEN req.user
                        ELSE arrival.sessions[req.session_id].learner_id
    IN  /\ Learner(a) = Learner(b)
        /\ \/ a.op = "deposit" \/ b.op = "deposit"
           \/ a.op = "start" /\ b.op = "start" /\ a.session_id # b.session_id

BothAnswered == \A p \in Workers : requests[p].pc = "done"

(* C13: when two requests on one wallet (two deposits, a deposit with a     *)
(* start or an end, two starts of different sessions of one learner) have   *)
(* been served at once, every wallet's balance_cents and                    *)
(* locked_balance_cents are those of serving the two one after the other,   *)
(* in one of the two orders: no update is lost.                             *)
C13_SerialOutcome ==
    (BothAnswered /\ SameWalletPair(requests[1], requests[2]))
    => \/ wallets = Served(Served(arrival.wallets, arrival.sessions, requests[1]),
                           arrival.sessions, requests[2])
       \/ wallets = Served(Served(arrival.wallets, arrival.sessions, requests[2]),
                           arrival.sessions, requests[1])

----------------------------------------------------------------------------
(* C14: a deposit of amount a by a user who has a wallet adds exactly a to  *)
(* that wallet's balance_cents, leaves locked_balance_cents, every other    *)
(* wallet and every session unchanged, appends exactly one row of type      *)
(* deposit with amount_cents = a for that wallet, and returns the new       *)
(* balance.                                                                 *)
C14_DepositEffect ==
    [][\A user \in UserIds, a \in DepositAmounts :
          (confirm_deposit_sim(user, a) /\ HasWallet(wallets, user))
          => /\ wallets' = [wallets EXCEPT ![user].balance_cents = @ + a]
             /\ sessions' = sessions
             /\ wallet_transactions' = Append(wallet_transactions,
                    [wallet_id |-> user, amount_cents |-> a,
                     transaction_type |-> "deposit"])
             /\ response' = Response(200, wallets[user].balance_cents + a)]_vars

\* a deposit has just been made into a wallet that holds funds in escrow
C14_Witness ==
    /\ response.status_code = 200
    /\ Len(wallet_transactions) = 2
    /\ LET row == wallet_transactions[2]
       IN  /\ row.transaction_type = "deposit"
           /\ HasWallet(wallets, row.wallet_id)
           /\ wallets[row.wallet_id].locked_balance_cents > 0
           /\ wallets[row.wallet_id].balance_cents = row.amount_cents
           /\ response.result = row.amount_cents

(* C15: every successful end request appends exactly two rows to the        *)
(* transaction log, a payment row of -final_cost on the learner's wallet    *)
(* and an earning row of +payee credit on the payee's wallet, and no row    *)
(* for the retained commission; no step changes or removes a row that the   *)
(* log already holds.                                                       *)
C15_EndLogsTwoRows ==
    [][/\ \A sid \in DOMAIN sessions :
            (EndRequest(sid) /\ Succeeded)
            => LET learner_id == sessions[sid].learner_id
                   payee_id == IF sessions[sid].business_id # None
                               THEN sessions[sid].business_id
                               ELSE sessions[sid].tutor_id
                   final_cost == sessions'[sid].final_cost_cents
                   payee_credit == wallets'[payee_id].balance_cents
                                   - wallets[payee_id].balance_cents
               IN  wallet_transactions' = wallet_transactions \o
                     << [wallet_id |-> learner_id, amount_cents |-> -final_cost,
                         transaction_type |-> "payment"],
                        [wallet_id |-> payee_id, amount_cents |-> payee_credit,
                         transaction_type |-> "earning"] >>
       /\ Len(wallet_transactions') >= Len(wallet_transactions)
       /\ SubSeq(wallet_transactions', 1, Len(wallet_transactions))
            = wallet_transactions]_vars

\* an end with a retained commission has just logged its two rows after the
\* deposit row
C15_Witness ==
    /\ response.status_code = 200
    /\ Len(wallet_transactions) = 3
    /\ wallet_transactions[1].transaction_type = "deposit"
    /\ wallet_transactions[2].transaction_type = "payment"
    /\ wallet_transactions[3].transaction_type = "earning"
    /\ wallet_transactions[3].amount_cents > 0
    /\ wallet_transactions[2].amount_cents + wallet_transactions[3].amount_cents < 0
    /\ \E sid \in DOMAIN sessions :
            /\ sessions[sid].status = "completed"
            /\ sessions[sid].final_cost_cents = -wallet_transactions[2].amount_cents
            /\ response.result = sessions[sid].final_cost_cents

(* C16: a booking only appends a session row with status scheduled,         *)
(* learner_id = the caller and hourly_rate_cents = max_cost_cap_cents = the *)
(* requested amount; every wallet, every other session row and the          *)
(* transaction log are unchanged.                                           *)
C16_BookingMovesNoMoney ==
    [][\A user \in UserIds, tutor_id \in TutorIds,
          business_id \in BusinessIds \cup {None}, amount \in BookAmounts :
          book_with_wallet(user, tutor_id, business_id, amount)
          => /\ Len(sessions') = Len(sessions) + 1
             /\ SubSeq(sessions', 1, Len(sessions)) = sessions
             /\ LET session == sessions'[Len(sessions')]
                IN  /\ session.status = "scheduled"
                    /\ session.learner_id = user
                    /\ session.tutor_id = tutor_id
                    /\ session.hourly_rate_cents = amount
                    /\ session.max_cost_cap_cents = amount
                    /\ session.start_time = NULL
             /\ wallets' = wallets
             /\ wallet_transactions' = wallet_transactions]_vars

\* a session has just been booked by a learner whose wallet holds a deposit
C16_Witness ==
    /\ response = Response(200, 0)
    /\ Len(sessions) >= 1
    /\ LET session == sessions[Len(sessions)]
       IN  /\ session.status = "scheduled"
           /\ session.start_time = NULL
           /\ session.hourly_rate_cents = session.max_cost_cap_cents
           /\ session.max_cost_cap_cents > 0
           /\ Len(wallet_transactions) = 1
           /\ wallets[session.learner_id].balance_cents
                = wallet_transactions[1].amount_cents
           /\ wallets[session.learner_id].locked_balance_cents = 0

\* the sum of amount_cents over the first n log rows of a wallet
RECURSIVE LogSum(_, _)
LogSum(wallet_id, n) ==
    IF n = 0 THEN 0
    ELSE LogSum(wallet_id, n - 1)
         + (IF wallet_transactions[n].wallet_id = wallet_id
            THEN wallet_transactions[n].amount_cents ELSE 0)

(* C17: with requests served one at a time, in every reachable state each   *)
(* wallet's balance_cents + locked_balance_cents equals the sum of          *)
(* amount_cents over the transaction-log rows of that wallet.               *)
C17_WalletEqualsLogSum ==
    \A u \in DOMAIN wallets :
        wallets[u].balance_cents + wallets[u].locked_balance_cents
            = LogSum(u, Len(wallet_transactions))
====
